---- MODULE Spec2Model ----
(***************************************************************************)
(* Model of vast-enum's VastEnum<Enum, Repr> (src/src/lib.rs): a wrapper   *)
(* holding an integer discriminant that may or may not be a variant of a   *)
(* fieldless enum.                                                         *)
(*                                                                         *)
(* A wrapper value is the record [int |-> field 0, tag |-> Enum], the tag  *)
(* standing for the PhantomData<Enum> type parameter.  The program under   *)
(* observation is the doc test's `let mut enum_`, called w here, together  *)
(* with `out`, the wrapper last returned by cast or map.                   *)
(***************************************************************************)
EXTENDS Integers, Sequences, FiniteSets, TLC

\* Largest value of Repr explored (the doc test uses u8; no operation of the
\* wrapper does arithmetic on the integer, so no width is involved).
MaxRepr == 7

Repr == 0..MaxRepr

\* Enum -> Repr tables of the enums the wrapper is instantiated with: Color is
\* the doc test's enum; Level is a second instantiation for the EnumNew and
\* EnumOut type parameters, chosen so that each integer is valid for both,
\* one or neither of the two enums.
Discriminant ==
  [ Color |-> [Red |-> 0, Yellow |-> 1, Green |-> 2],
    Level |-> [Low |-> 1, High |-> 5] ]

EnumTypes == DOMAIN Discriminant

Variants(t) == DOMAIN Discriminant[t]

\* Option<T>
None == [some |-> FALSE]
Some(x) == [some |-> TRUE, val |-> x]

\* Result<T, E>
Ok(x) == [ok |-> TRUE, val |-> x]
Err(x) == [ok |-> FALSE, err |-> x]

\* Enum: Into<Repr> (total)
into(t, e) == Discriminant[t][e]

\* Repr: TryInto<Enum> (partial; the error carries the rejected number)
try_into(t, v) ==
  IF \E e \in Variants(t) : Discriminant[t][e] = v
  THEN Ok(CHOOSE e \in Variants(t) : Discriminant[t][e] = v)
  ELSE Err(v)

\* Result::ok
ok(r) == IF r.ok THEN Some(r.val) ELSE None

\* from_int, and a variant that stores the default for unknown discriminants
from_intValidating(t, v) ==
  [int |-> IF try_into(t, v).ok THEN v ELSE 0, tag |-> t]
from_int(t, v) == [int |-> v, tag |-> t]

int(w) == w.int

\* cast, and a variant that re-encodes through the source enum
castReencode(w, t) ==
  from_int(t, IF try_into(w.tag, w.int).ok THEN w.int ELSE 0)
cast(w, t) == from_int(t, w.int)

\* from_variant, and a variant that stores the variant's position instead of
\* its discriminant
from_variantOrdinal(t, e) ==
  [int |-> Cardinality({x \in Variants(t) : Discriminant[t][x] < Discriminant[t][e]}),
   tag |-> t]
from_variant(t, e) == [int |-> into(t, e), tag |-> t]

variant(w) == ok(try_into(w.tag, w.int))

\* is_valid, and a variant that range-checks instead of decoding
is_validRange(w) ==
  \E e \in Variants(w.tag) : w.int <= Discriminant[w.tag][e]
is_valid(w) == variant(w).some

\* map, a variant that substitutes the default on a failed decode, and one
\* that forgets the transform
mapOrDefault(w, f, t) ==
  IF variant(w).some THEN from_variant(t, f[variant(w).val]) ELSE from_int(t, 0)
mapCastOnly(w, f, t) == cast(w, t)
map(w, f, t) ==
  IF variant(w).some THEN from_variant(t, f[variant(w).val]) ELSE cast(w, t)

\* number of times map calls its FnOnce argument
map_calls(w) == IF variant(w).some THEN 1 ELSE 0

\* derivative(Default): field 0 is Repr::default()
Default(t) == [int |-> 0, tag |-> t]

\* PhantomData's PartialEq, Ord and Hash: every PhantomData equals every other,
\* and hashing one feeds nothing to the hasher
phantom_eq(a, b) == TRUE
phantom_cmp(a, b) == "Equal"
phantom_hash(a) == << >>

int_cmp(a, b) == IF a < b THEN "Less" ELSE IF a > b THEN "Greater" ELSE "Equal"

\* derived PartialEq / Eq, and a variant that also compares the tag
eqTagged(a, b) == a.int = b.int /\ a.tag = b.tag
eq(a, b) == a.int = b.int /\ phantom_eq(a.tag, b.tag)

\* derived PartialOrd / Ord: lexicographic over the fields
cmp(a, b) ==
  IF int_cmp(a.int, b.int) # "Equal" THEN int_cmp(a.int, b.int)
  ELSE phantom_cmp(a.tag, b.tag)

\* derived Hash: what is fed to the hasher, field by field
hash(a) == <<a.int>> \o phantom_hash(a.tag)

\* Debug: the name of the tuple and its single field
fmt(w) ==
  IF variant(w).some THEN <<"VastEnum", w.int, ":", variant(w).val>>
  ELSE <<"VastEnum", w.int>>

VARIABLES
  w,        \* the wrapper `enum_`
  out,      \* the wrapper last returned by cast / map
  op,       \* the last operation and its arguments
  res,      \* what the last operation returned
  written,  \* ghost: the integer w was constructed with or last written through
            \* a view (val), and the operation that put it there (by)
  fCalls,   \* how often the last map called its closure
  outcome   \* "returned" or "panicked"

vars == <<w, out, op, res, written, fCalls, outcome>>

Unit == "()"

Init ==
  /\ \E t \in EnumTypes : w = Default(t) /\ written = [val |-> Default(t).int, by |-> "default"]
  /\ \E t \in EnumTypes : out = Default(t)
  /\ op = [name |-> "default"]
  /\ res = Unit
  /\ fCalls = 0
  /\ outcome = "returned"

\* enum_ = VastEnum::from_int(v)
FromInt(t, v) ==
  /\ w' = from_int(t, v)
  /\ written' = [val |-> v, by |-> "from_int"]
  /\ op' = [name |-> "from_int", t |-> t, v |-> v]
  /\ res' = Unit
  /\ outcome' = "returned"
  /\ UNCHANGED <<out, fCalls>>

\* enum_ = VastEnum::from_variant(e)
FromVariant(t, e) ==
  /\ w' = from_variant(t, e)
  /\ written' = [val |-> from_variant(t, e).int, by |-> "from_variant"]
  /\ op' = [name |-> "from_variant", t |-> t, e |-> e]
  /\ res' = Unit
  /\ outcome' = "returned"
  /\ UNCHANGED <<out, fCalls>>

\* enum_ = e.into()
From(t, e) ==
  /\ w' = from_variant(t, e)
  /\ written' = [val |-> from_variant(t, e).int, by |-> "from"]
  /\ op' = [name |-> "from", t |-> t, e |-> e]
  /\ res' = Unit
  /\ outcome' = "returned"
  /\ UNCHANGED <<out, fCalls>>

\* enum_.int()
GetInt ==
  /\ res' = int(w)
  /\ op' = [name |-> "int"]
  /\ outcome' = "returned"
  /\ UNCHANGED <<w, out, written, fCalls>>

\* *enum_.int_mut() = v, and a variant that hands out a reference to a copy
IntMutOnCopy(v) ==
  /\ written' = [val |-> v, by |-> "int_mut"]
  /\ op' = [name |-> "int_mut", v |-> v]
  /\ res' = Unit
  /\ outcome' = "returned"
  /\ UNCHANGED <<w, out, fCalls>>
IntMut(v) ==
  /\ w' = [w EXCEPT !.int = v]
  /\ written' = [val |-> v, by |-> "int_mut"]
  /\ op' = [name |-> "int_mut", v |-> v]
  /\ res' = Unit
  /\ outcome' = "returned"
  /\ UNCHANGED <<out, fCalls>>

\* *enum_.as_mut() = v
AsMut(v) ==
  /\ w' = [w EXCEPT !.int = v]
  /\ written' = [val |-> v, by |-> "as_mut"]
  /\ op' = [name |-> "as_mut", v |-> v]
  /\ res' = Unit
  /\ outcome' = "returned"
  /\ UNCHANGED <<out, fCalls>>

\* *enum_.as_ref()
AsRef ==
  /\ res' = w.int
  /\ op' = [name |-> "as_ref"]
  /\ outcome' = "returned"
  /\ UNCHANGED <<w, out, written, fCalls>>

\* *enum_.borrow()
Borrow ==
  /\ res' = w.int
  /\ op' = [name |-> "borrow"]
  /\ outcome' = "returned"
  /\ UNCHANGED <<w, out, written, fCalls>>

\* enum_.variant(), a variant that unwraps the conversion, and one that
\* repairs the wrapper when the conversion fails
VariantUnwrap ==
  /\ res' = IF try_into(w.tag, w.int).ok THEN variant(w) ELSE Unit
  /\ op' = [name |-> "variant"]
  /\ outcome' = IF try_into(w.tag, w.int).ok THEN "returned" ELSE "panicked"
  /\ UNCHANGED <<w, out, written, fCalls>>
VariantRepairs ==
  /\ res' = variant(w)
  /\ op' = [name |-> "variant"]
  /\ outcome' = "returned"
  /\ w' = IF variant(w).some THEN w ELSE Default(w.tag)
  /\ UNCHANGED <<out, written, fCalls>>
Variant ==
  /\ res' = variant(w)
  /\ op' = [name |-> "variant"]
  /\ outcome' = "returned"
  /\ UNCHANGED <<w, out, written, fCalls>>

\* enum_.is_valid()
IsValid ==
  /\ res' = is_valid(w)
  /\ op' = [name |-> "is_valid"]
  /\ outcome' = "returned"
  /\ UNCHANGED <<w, out, written, fCalls>>

\* out = enum_.cast::<t>()
Cast(t) ==
  /\ out' = cast(w, t)
  /\ op' = [name |-> "cast", to |-> t]
  /\ res' = Unit
  /\ outcome' = "returned"
  /\ UNCHANGED <<w, written, fCalls>>

\* out = enum_.map(f), f a function from Enum to the enum t
Map(t, f) ==
  /\ out' = map(w, f, t)
  /\ fCalls' = map_calls(w)
  /\ op' = [name |-> "map", to |-> t, f |-> f]
  /\ res' = Unit
  /\ outcome' = "returned"
  /\ UNCHANGED <<w, written>>

\* enum_ == out  (out reinterpreted with enum_'s type)
Eq ==
  /\ res' = eq(w, out)
  /\ op' = [name |-> "eq"]
  /\ outcome' = "returned"
  /\ UNCHANGED <<w, out, written, fCalls>>

\* enum_.cmp(&out)
Cmp ==
  /\ res' = cmp(w, out)
  /\ op' = [name |-> "cmp"]
  /\ outcome' = "returned"
  /\ UNCHANGED <<w, out, written, fCalls>>

\* enum_.hash(h1); out.hash(h2)
Hash ==
  /\ res' = [a |-> hash(w), b |-> hash(out)]
  /\ op' = [name |-> "hash"]
  /\ outcome' = "returned"
  /\ UNCHANGED <<w, out, written, fCalls>>

\* format!("{:?}", enum_)
Fmt ==
  /\ res' = fmt(w)
  /\ op' = [name |-> "fmt"]
  /\ outcome' = "returned"
  /\ UNCHANGED <<w, out, written, fCalls>>

Next ==
  \/ \E t \in EnumTypes, v \in Repr : FromInt(t, v)
  \/ \E t \in EnumTypes : \E e \in Variants(t) : FromVariant(t, e)
  \/ \E t \in EnumTypes : \E e \in Variants(t) : From(t, e)
  \/ GetInt
  \/ \E v \in Repr : IntMut(v)
  \/ \E v \in Repr : AsMut(v)
  \/ AsRef
  \/ Borrow
  \/ Variant
  \/ IsValid
  \/ \E t \in EnumTypes : Cast(t)
  \/ \E t \in EnumTypes : \E f \in [Variants(w.tag) -> Variants(t)] : Map(t, f)
  \/ Eq
  \/ Cmp
  \/ Hash
  \/ Fmt

Spec == Init /\ [][Next]_vars

----------------------------------------------------------------------------
(* Properties *)

\* v is the discriminant of some variant of the enum t
IsDiscriminant(t, v) == \E e \in Variants(t) : Discriminant[t][e] = v

Identity(t) == [e \in Variants(t) |-> e]

ReadOps ==
  {"int", "variant", "is_valid", "cast", "map", "as_ref", "borrow",
   "eq", "cmp", "hash", "fmt"}

\* C1: map applied to a wrapper whose integer is no variant of its enum
\* returns that integer unchanged under the output enum: the closure is not
\* called, no default is substituted, the result is what cast returns, and it
\* is valid only as the output enum's own decode says (from_int(5) over Color
\* mapped with the identity keeps int() == 5 and stays invalid).
C1_MapInvalidPassesThrough ==
  (op.name = "map" /\ ~IsDiscriminant(w.tag, w.int)) =>
    /\ out.int = w.int
    /\ out.tag = op.to
    /\ fCalls = 0
    /\ out = cast(w, op.to)
    /\ is_valid(out) <=> IsDiscriminant(op.to, w.int)
    /\ (w = from_int("Color", 5) /\ op.to = "Color" /\ op.f = Identity("Color"))
         => (int(out) = 5 /\ ~is_valid(out))

C1_Witness ==
  /\ op.name = "map"
  /\ w = from_int("Color", 5)
  /\ op.to = "Color"
  /\ op.f = Identity("Color")
  /\ int(out) = 5
  /\ ~is_valid(out)

\* C2: map applied to a wrapper whose integer decodes to the variant e returns
\* a wrapper that stores the encoding of f(e) and decodes to Some(f(e)).
C2_MapValidAppliesTransform ==
  op.name = "map" =>
    \A e \in Variants(w.tag) :
      Discriminant[w.tag][e] = w.int =>
        /\ variant(out) = Some(op.f[e])
        /\ out.int = Discriminant[op.to][op.f[e]]
        /\ out.tag = op.to

C2_Witness ==
  /\ op.name = "map"
  /\ w = from_int("Color", 2)
  /\ op.to = "Level"
  /\ op.f["Green"] = "High"
  /\ variant(out) = Some("High")
  /\ out.int = 5

\* C3: every observation reflects the integer most recently constructed or
\* written through int_mut / as_mut: int() returns it, variant() is its decode
\* and is_valid() its validity, never those of an earlier value.  For Color:
\* from_variant(Green) gives int() == 2 and is_valid(); after writing 1,
\* is_valid() and variant() == Some(Yellow); after writing 5, !is_valid(),
\* variant() == None and int() == 5.
C3_ObservationsReflectLastWrite ==
  /\ op.name = "int" => res = written.val
  /\ op.name = "variant" =>
       /\ res.some <=> IsDiscriminant(w.tag, written.val)
       /\ res.some => Discriminant[w.tag][res.val] = written.val
  /\ op.name = "is_valid" => (res <=> IsDiscriminant(w.tag, written.val))
  /\ (w.tag = "Color" /\ written = [val |-> 2, by |-> "from_variant"]) =>
       /\ op.name = "int" => res = 2
       /\ op.name = "is_valid" => res = TRUE
  /\ (w.tag = "Color" /\ written = [val |-> 1, by |-> "int_mut"]) =>
       /\ op.name = "is_valid" => res = TRUE
       /\ op.name = "variant" => res = Some("Yellow")
  /\ (w.tag = "Color" /\ written = [val |-> 5, by |-> "int_mut"]) =>
       /\ op.name = "is_valid" => res = FALSE
       /\ op.name = "variant" => res = None
       /\ op.name = "int" => res = 5

C3_Witness ==
  /\ w.tag = "Color"
  /\ written = [val |-> 5, by |-> "int_mut"]
  /\ op.name = "variant"
  /\ res = None

\* C4: the stored integer is always the value the wrapper was constructed with
\* or the value last written through int_mut / as_mut, whatever that value is;
\* int, variant, is_valid, cast, map, as_ref, borrow, comparison, hashing and
\* debug formatting leave the wrapper they are applied to as it was.
C4_StoredIntegerNeverChangedImplicitly ==
  [][ /\ w'.int = written'.val
      /\ op'.name \in ReadOps => (w' = w /\ written' = written)
      /\ op'.name \in {"int_mut", "as_mut"} => (w'.int = op'.v /\ w'.tag = w.tag)
    ]_vars

C4_Witness ==
  /\ op.name = "fmt"
  /\ written = [val |-> 6, by |-> "as_mut"]
  /\ w.int = 6
  /\ ~IsDiscriminant(w.tag, w.int)

\* C5: a wrapper built from a variant e, by from_variant or by From<Enum>,
\* is valid and decodes back to e.
C5_FromVariantRoundTrip ==
  op.name \in {"from_variant", "from"} =>
    /\ w.tag = op.t
    /\ variant(w) = Some(op.e)
    /\ is_valid(w)

C5_Witness ==
  /\ op.name = "from_variant"
  /\ op.t = "Level"
  /\ op.e = "High"
  /\ variant(w) = Some("High")

\* C6: from_int(v) stores v verbatim, whether or not v is a variant.
C6_FromIntRoundTrip ==
  op.name = "from_int" => (int(w) = op.v /\ w.tag = op.t)

C6_Witness ==
  /\ op.name = "from_int"
  /\ op.v = 6
  /\ int(w) = 6
  /\ ~IsDiscriminant(w.tag, 6)

\* C7: cast keeps the stored integer (it equals from_int(w.int()) under the
\* new enum), and the result is valid exactly when the new enum has a variant
\* with that integer, whether or not the original wrapper was valid.
C7_CastKeepsInteger ==
  op.name = "cast" =>
    /\ int(out) = int(w)
    /\ out = [int |-> w.int, tag |-> op.to]
    /\ is_valid(out) <=> IsDiscriminant(op.to, w.int)

C7_Witness ==
  /\ op.name = "cast"
  /\ w.tag = "Color"
  /\ op.to = "Level"
  /\ ~is_valid(w)
  /\ is_valid(out)
  /\ int(out) = 5

\* C8: equality, ordering and hashing depend on the stored integers only:
\* wrappers with equal integers are equal, compare Equal and feed the same
\* data to the hasher whatever their enum parameters and validity; wrappers
\* with different integers are unequal and ordered as their integers.
C8_ComparisonsOverIntegerOnly ==
  /\ op.name = "eq" => (res <=> w.int = out.int)
  /\ op.name = "cmp" =>
       /\ res = "Equal" <=> w.int = out.int
       /\ res = "Less" <=> w.int < out.int
       /\ res = "Greater" <=> w.int > out.int
  /\ op.name = "hash" =>
       /\ w.int = out.int => res.a = res.b
       /\ res.a = <<w.int>>
       /\ res.b = <<out.int>>

C8_Witness ==
  /\ op.name = "eq"
  /\ w.int = out.int
  /\ w.tag # out.tag
  /\ ~is_valid(w)
  /\ res = TRUE

\* C9: every operation returns, for every integer; a failed decode is the
\* absent value None, which carries nothing of the conversion's error, and
\* variant() is None exactly when the integer is no variant.
C9_OnlyDecodeFailsAndAsNone ==
  /\ outcome = "returned"
  /\ op.name = "variant" =>
       /\ res = None <=> ~IsDiscriminant(w.tag, w.int)
       /\ res # None => (res.some /\ Discriminant[w.tag][res.val] = w.int)
  /\ op.name = "fmt" => (Len(res) >= 2 /\ res[2] = w.int)

C9_Witness ==
  /\ op.name = "variant"
  /\ outcome = "returned"
  /\ w.int = 7
  /\ res = None

\* C10: is_valid() is variant().is_some(): it is true exactly when the
\* stored integer is the discriminant of a variant of the enum.
C10_IsValidIffVariantIsSome ==
  op.name = "is_valid" =>
    /\ res <=> variant(w).some
    /\ res <=> IsDiscriminant(w.tag, w.int)

C10_Witness ==
  /\ op.name = "is_valid"
  /\ w = from_int("Level", 3)
  /\ res = FALSE

====
